---- MODULE Spec2Model ----
(***************************************************************************)
(* ModelSystem (ProcessOptimizer/model_systems/model_system.py) together   *)
(* with the noise models it holds.  Floats are fixed-point integers in     *)
(* units of 1/Unit, so that the default relative noise size 0.01 is 1.     *)
(* The module noise_models (NoiseModel, its variants, parse_noise_model)   *)
(* and the Space / expected_minimum collaborators are not among the        *)
(* sources; they are written from the specification text.                 *)
(***************************************************************************)
EXTENDS Integers, Sequences, FiniteSets, TLC

\* ------------------------------------------------------------------ bounds
\* spaces have 1..MaxDims dimensions
MaxDims == 2
\* signals handed to apply are Unit*1 .. Unit*MaxSignal
MaxSignal == 2
\* a Latin hypercube draw shifts dimension j by k*(j-1) strata, k in 0..MaxShift
MaxShift == 1

\* --------------------------------------------------------------- constants
\* fixed-point resolution: 1.0 is Unit, 0.01 is 1
Unit == 100
\* points per dimension of a bound estimate (ndims*10)
LhsFactor == 10
\* AdditiveNoise() default spread 1
DefaultAdditiveSize == 100
\* MultiplicativeNoise() default relative spread 0.01
DefaultMultiplicativeSize == 1

\* ------------------------------------------------------------------ values
None == <<>>
Some(v) == <<v>>

Ok(v) == [kind |-> "ok", val |-> v, err |-> ""]
Raise(e) == [kind |-> "raise", val |-> 0, err |-> e]
NoRet == [kind |-> "none", val |-> 0, err |-> ""]

\* standard normal draws, before scaling by the spread
NormalDraws == {-1, 0, 1}

\* zero-argument sampling functions
NoDist == [kind |-> "none", c |-> 0, size |-> 0]
ConstDist(c) == [kind |-> "const", c |-> c, size |-> 0]
NormalDist(size) == [kind |-> "normal", c |-> 0, size |-> size]

\* sample(): a constant sampler returns its constant, the default one a
\* zero-mean normal draw z scaled by the configured spread
Sample(dist, z) == IF dist.kind = "const" THEN dist.c ELSE z * dist.size

\* NoiseModel instances; oid 0 marks an instance made by the parser or by a
\* selector, oid >= 1 one the caller made
ZeroNoise(oid) ==
    [type |-> "Zero", oid |-> oid, dist |-> NoDist, selector |-> "none"]
AdditiveNoise(oid, dist) ==
    [type |-> "Additive", oid |-> oid, dist |-> dist, selector |-> "none"]
MultiplicativeNoise(oid, dist) ==
    [type |-> "Multiplicative", oid |-> oid, dist |-> dist, selector |-> "none"]
DataDependentNoise(oid, sel) ==
    [type |-> "DataDependent", oid |-> oid, dist |-> NoDist, selector |-> sel]
NoModel == [type |-> "none", oid |-> 0, dist |-> NoDist, selector |-> "none"]

\* the two selectors of the tests:
\*   AddX:     lambda X: AdditiveNoise(noise_dist = lambda: X)   (scalar X = <<x>>)
\*   ZeroIfX0: lambda X: ZeroNoise() if X[0]==0 else AdditiveNoise()
Selector(sel, X) ==
    IF sel = "AddX" THEN AdditiveNoise(0, ConstDist(X[1] * Unit))
    ELSE IF X[1] = 0 THEN ZeroNoise(0)
    ELSE AdditiveNoise(0, NormalDist(DefaultAdditiveSize))

\* applyLeaf with the multiplicative variant scaling by the sample alone
applyLeaf_scaleOnly(nm, X, s, z) ==
    IF nm.type = "Zero"
    THEN [value |-> s, draws |-> 0, sample |-> None, context |-> X, signal |-> s]
    ELSE LET n == Sample(nm.dist, z) IN
         IF nm.type = "Additive"
         THEN [value |-> s + n, draws |-> 1, sample |-> Some(n),
               context |-> X, signal |-> s]
         ELSE [value |-> (s * n) \div Unit, draws |-> 1,
               sample |-> Some(n), context |-> X, signal |-> s]

\* ------------------------------------------------- NoiseModel.apply
\* apply of the three plain variants, with z the normal draw the sampler
\* would make; draws counts the calls of the sampling function
applyLeaf(nm, X, s, z) ==
    IF nm.type = "Zero"
    THEN [value |-> s, draws |-> 0, sample |-> None, context |-> X, signal |-> s]
    ELSE LET n == Sample(nm.dist, z) IN
         IF nm.type = "Additive"
         THEN [value |-> s + n, draws |-> 1, sample |-> Some(n),
               context |-> X, signal |-> s]
         ELSE [value |-> (s * (Unit + n)) \div Unit, draws |-> 1,
               sample |-> Some(n), context |-> X, signal |-> s]

\* SelectModel keeping the model of the first call
SelectModel_cached(nm, X, prev) ==
    IF prev # None THEN prev[1] ELSE Selector(nm.selector, X)

\* DataDependentNoise: the model for this call; prev is the model the
\* previous call selected, which is not consulted (no caching)
SelectModel(nm, X, prev) == Selector(nm.selector, X)

apply(nm, X, s, z, prev) ==
    IF nm.type = "DataDependent"
    THEN applyLeaf(SelectModel(nm, X, prev), X, s, z)
    ELSE applyLeaf(nm, X, s, z)

\* the NoiseModel capability declares apply only; any other attribute of an
\* instance is missing, and calling it raises AttributeError
get_noise(nm, X, Y) == Raise("AttributeError")

\* ------------------------------------------------- parse_noise_model
InstSpec(m) == [shape |-> "instance", name |-> "", has_type |-> FALSE,
                size |-> None, model |-> m]
StrSpec(n) == [shape |-> "str", name |-> n, has_type |-> FALSE,
               size |-> None, model |-> NoModel]
DictSpec(ht, n, sz) == [shape |-> "dict", name |-> n, has_type |-> ht,
                        size |-> sz, model |-> NoModel]
OtherSpec == [shape |-> "other", name |-> "", has_type |-> FALSE,
              size |-> None, model |-> NoModel]

ModelTypes == {"constant", "proportional", "zero"}

\* the named variant, built with noise_size when given
BuildModel(name, size) ==
    IF name = "constant"
    THEN AdditiveNoise(0, NormalDist(IF size = None THEN DefaultAdditiveSize
                                     ELSE size[1]))
    ELSE IF name = "proportional"
    THEN MultiplicativeNoise(0, NormalDist(IF size = None
                                           THEN DefaultMultiplicativeSize
                                           ELSE size[1]))
    ELSE ZeroNoise(0)

parse_noise_model(spec) ==
    IF spec.shape = "instance" THEN [ok |-> TRUE, model |-> spec.model]
    ELSE IF spec.shape = "str" /\ spec.name \in ModelTypes
    THEN [ok |-> TRUE, model |-> BuildModel(spec.name, None)]
    ELSE IF spec.shape = "dict" /\ spec.has_type /\ spec.name \in ModelTypes
    THEN [ok |-> TRUE, model |-> BuildModel(spec.name, spec.size)]
    ELSE [ok |-> FALSE, model |-> NoModel]

\* ------------------------------------------------- inputs
\* instances a caller builds (tests: lambda: 2, lambda: noise_level, the selectors)
Instances ==
    {ZeroNoise(1), AdditiveNoise(1, ConstDist(2 * Unit)),
     MultiplicativeNoise(1, ConstDist(1 * Unit)),
     DataDependentNoise(1, "AddX"), DataDependentNoise(1, "ZeroIfX0")}

Specs ==
    {InstSpec(m) : m \in Instances}
    \cup {StrSpec(n) : n \in ModelTypes \cup {"bogus"}}
    \cup {DictSpec(TRUE, "constant", Some(5 * Unit)),
          DictSpec(TRUE, "proportional", None),
          DictSpec(TRUE, "bogus", None),
          DictSpec(FALSE, "", Some(5 * Unit)),
          OtherSpec}

Dims == 1..MaxDims
\* coordinates of the points callers evaluate: zero and non-zero
Coords == {0, 1}
Points(d) == [1..d -> Coords]
Signals == {Unit * k : k \in 1..MaxSignal}

\* noiseless score functions a caller supplies
ScoreFns == {"sum", "diag"}

RECURSIVE SumTo(_, _)
SumTo(X, j) == IF j = 0 THEN 0 ELSE X[j] + SumTo(X, j - 1)

Score(f, X) ==
    IF f = "sum" THEN Unit * SumTo(X, Len(X))
    ELSE IF \A j \in 1..Len(X) : X[j] = X[1] THEN Unit ELSE 0

\* a bound argument of the constructor: None or a number
BigBound == 50 * Unit
BoundArgs == {None, Some(0), Some(BigBound)}

\* ------------------------------------------------- Space
\* space_factory: the normalized space, known by its n_dims
space_factory(d) == d

\* space.lhs(n): n points, each dimension visiting each of the n strata once
lhs(d, n, k) == [i \in 1..n |-> [j \in 1..d |-> ((i - 1) + k * (j - 1)) % n]]

\* MinScore taking the largest score
MinScore_max(f, pts) ==
    CHOOSE v \in {Score(f, pts[i]) : i \in 1..Len(pts)} :
        \A i \in 1..Len(pts) : v >= Score(f, pts[i])

\* np.min / np.max over the scores of a list of points
MinScore(f, pts) ==
    CHOOSE v \in {Score(f, pts[i]) : i \in 1..Len(pts)} :
        \A i \in 1..Len(pts) : v <= Score(f, pts[i])
MaxScore(f, pts) ==
    CHOOSE v \in {Score(f, pts[i]) : i \in 1..Len(pts)} :
        \A i \in 1..Len(pts) : v >= Score(f, pts[i])

\* expected_minimum(result): (location, value) of the result object
expected_minimum(result) == <<result.x, result.fun>>

\* ------------------------------------------------- state
VARIABLES
    pc,             \* "new" before __init__, "ready" after it, "failed" if it raised
    arg_score, arg_space, arg_true_min, arg_true_max,   \* constructor arguments
    score, space, noise_model, true_min, true_max,      \* the ModelSystem's fields
    minPoints, maxPoints,   \* the points __init__ sampled for each bound
    op,             \* the latest call
    ret,            \* what it returned or raised
    callSpec,       \* its noise_model argument (__init__, set_noise_model)
    callX,          \* its X / context / expected-minimum location
    callSignal,     \* its signal (apply)
    after,          \* context and signal as apply left them
    drawn,          \* calls of a sampling function it made
    sample,         \* the sample drawn, None if none
    parses,         \* calls of parse_noise_model it made
    used,           \* the noise model it called a method of, NoModel if none
    selected,       \* model the selector returned at the latest apply on the
                    \* installed DataDependentNoise, None if none
    prevSelected    \* when the latest call is an apply: the value of selected
                    \* before it; None otherwise

args == <<arg_score, arg_space, arg_true_min, arg_true_max>>
fields == <<score, space, noise_model, true_min, true_max>>
call == <<op, ret, callSpec, callX, callSignal, after, drawn, sample, parses,
          used>>
hist == <<selected, prevSelected>>
vars == <<pc, args, fields, minPoints, maxPoints, call, hist>>

Init ==
    /\ pc = "new"
    /\ arg_score \in ScoreFns
    /\ arg_space \in Dims
    /\ arg_true_min \in BoundArgs
    /\ arg_true_max \in BoundArgs
    /\ callSpec \in Specs
    /\ score = "none" /\ space = 0 /\ noise_model = NoModel
    /\ true_min = 0 /\ true_max = 0
    /\ minPoints = <<>> /\ maxPoints = <<>>
    /\ op = "none" /\ ret = NoRet
    /\ callX = <<>> /\ callSignal = 0 /\ after = <<>>
    /\ drawn = 0 /\ sample = None /\ parses = 0 /\ used = NoModel
    /\ selected = None /\ prevSelected = None

\* ------------------------------------------------- ModelSystem.__init__
\* IsAbsent as "if not true_min": a supplied 0 counts as absent
IsAbsent_falsy(b) == b = None \/ b = Some(0)

\* "if true_min is None"
IsAbsent(b) == b = None

\* points = self.space.lhs(ndims*10)
SamplePoints(sp, k) == lhs(sp, sp * LhsFactor, k)

ModelSystem_init ==
    /\ pc = "new"
    /\ op' = "__init__" /\ parses' = 1
    /\ UNCHANGED <<args, callSpec, callX, callSignal, after, drawn, sample,
                   used, hist>>
    /\ LET p == parse_noise_model(callSpec) IN
       IF ~p.ok
       THEN /\ pc' = "failed"
            /\ ret' = Raise("ConfigurationError")
            /\ UNCHANGED <<fields, minPoints, maxPoints>>
       ELSE \E k1, k2 \in 0..MaxShift :
            LET sp == space_factory(arg_space)
                pmin == IF IsAbsent(arg_true_min) THEN SamplePoints(sp, k1)
                        ELSE <<>>
                pmax == IF IsAbsent(arg_true_max) THEN SamplePoints(sp, k2)
                        ELSE <<>>
            IN  /\ pc' = "ready"
                /\ ret' = NoRet
                /\ score' = arg_score
                /\ space' = sp
                /\ noise_model' = p.model
                /\ minPoints' = pmin
                /\ true_min' = IF IsAbsent(arg_true_min)
                               THEN MinScore(arg_score, pmin)
                               ELSE arg_true_min[1]
                /\ maxPoints' = pmax
                /\ true_max' = IF IsAbsent(arg_true_max)
                               THEN MaxScore(arg_score, pmax)
                               ELSE arg_true_max[1]

\* result_loss scoring the noisy observation at the expected minimum
result_loss_noisy(result) ==
    /\ pc = "ready"
    /\ \E z \in NormalDraws :
       LET model_x == expected_minimum(result)[1]
           r == apply(noise_model, model_x, Score(score, model_x), z, selected)
       IN  /\ op' = "result_loss"
           /\ ret' = Ok(r.value - true_min)
           /\ callX' = result.x
           /\ used' = noise_model
           /\ drawn' = r.draws /\ sample' = r.sample
    /\ callSpec' = OtherSpec /\ callSignal' = 0 /\ after' = <<>>
    /\ parses' = 0
    /\ prevSelected' = None
    /\ UNCHANGED <<pc, args, fields, minPoints, maxPoints, selected>>

\* ------------------------------------------------- ModelSystem.result_loss
result_loss(result) ==
    /\ pc = "ready"
    /\ LET model_x == expected_minimum(result)[1]
           loss == Score(score, model_x) - true_min
       IN  /\ op' = "result_loss"
           /\ ret' = Ok(loss)
           /\ callX' = result.x
           /\ used' = NoModel
    /\ callSpec' = OtherSpec /\ callSignal' = 0 /\ after' = <<>>
    /\ drawn' = 0 /\ sample' = None /\ parses' = 0
    /\ prevSelected' = None
    /\ UNCHANGED <<pc, args, fields, minPoints, maxPoints, selected>>

\* ------------------------------------------------- ModelSystem.get_score
get_score(X) ==
    /\ pc = "ready"
    /\ LET Y == Score(score, X)
           n == get_noise(noise_model, X, Y)
       IN  /\ op' = "get_score"
           /\ ret' = IF n.kind = "raise" THEN n ELSE Ok(Y + n.val)
           /\ callX' = X
           /\ used' = noise_model
    /\ callSpec' = OtherSpec /\ callSignal' = 0 /\ after' = <<>>
    /\ drawn' = 0 /\ sample' = None /\ parses' = 0
    /\ prevSelected' = None
    /\ UNCHANGED <<pc, args, fields, minPoints, maxPoints, selected>>

\* set_noise_model re-estimating true_min for the new model
set_noise_model_recompute(spec) ==
    /\ pc = "ready"
    /\ op' = "set_noise_model" /\ callSpec' = spec /\ parses' = 1
    /\ used' = NoModel
    /\ LET p == parse_noise_model(spec) IN
       IF p.ok
       THEN /\ noise_model' = p.model
            /\ ret' = NoRet
            /\ selected' = None
            /\ \E k \in 0..MaxShift :
                   true_min' = MinScore(score, SamplePoints(space, k))
       ELSE /\ ret' = Raise("ConfigurationError")
            /\ UNCHANGED <<noise_model, selected, true_min>>
    /\ prevSelected' = None
    /\ callX' = <<>> /\ callSignal' = 0 /\ after' = <<>>
    /\ drawn' = 0 /\ sample' = None
    /\ UNCHANGED <<pc, args, score, space, true_max, minPoints, maxPoints>>

\* set_noise_model binding the parsed model to a local name only
set_noise_model_noassign(spec) ==
    /\ pc = "ready"
    /\ op' = "set_noise_model" /\ callSpec' = spec /\ parses' = 1
    /\ used' = NoModel
    /\ ret' = IF parse_noise_model(spec).ok THEN NoRet
              ELSE Raise("ConfigurationError")
    /\ prevSelected' = None
    /\ callX' = <<>> /\ callSignal' = 0 /\ after' = <<>>
    /\ drawn' = 0 /\ sample' = None
    /\ UNCHANGED <<pc, args, fields, minPoints, maxPoints, selected>>

\* set_noise_model swallowing the parse error
set_noise_model_swallow(spec) ==
    /\ pc = "ready"
    /\ op' = "set_noise_model" /\ callSpec' = spec /\ parses' = 1
    /\ used' = NoModel
    /\ ret' = NoRet
    /\ LET p == parse_noise_model(spec) IN
       IF p.ok
       THEN noise_model' = p.model /\ selected' = None
       ELSE UNCHANGED <<noise_model, selected>>
    /\ prevSelected' = None
    /\ callX' = <<>> /\ callSignal' = 0 /\ after' = <<>>
    /\ drawn' = 0 /\ sample' = None
    /\ UNCHANGED <<pc, args, score, space, true_min, true_max,
                   minPoints, maxPoints>>

\* set_noise_model falling back to ZeroNoise when the spec cannot be parsed
set_noise_model_fallback(spec) ==
    /\ pc = "ready"
    /\ op' = "set_noise_model" /\ callSpec' = spec /\ parses' = 1
    /\ used' = NoModel
    /\ LET p == parse_noise_model(spec) IN
       /\ noise_model' = IF p.ok THEN p.model ELSE ZeroNoise(0)
       /\ ret' = IF p.ok THEN NoRet ELSE Raise("ConfigurationError")
    /\ selected' = None
    /\ prevSelected' = None
    /\ callX' = <<>> /\ callSignal' = 0 /\ after' = <<>>
    /\ drawn' = 0 /\ sample' = None
    /\ UNCHANGED <<pc, args, score, space, true_min, true_max,
                   minPoints, maxPoints>>

\* ------------------------------------------------- ModelSystem.set_noise_model
set_noise_model(spec) ==
    /\ pc = "ready"
    /\ op' = "set_noise_model" /\ callSpec' = spec /\ parses' = 1
    /\ used' = NoModel
    /\ LET p == parse_noise_model(spec) IN
       IF p.ok
       THEN /\ noise_model' = p.model
            /\ ret' = NoRet
            /\ selected' = None
       ELSE /\ ret' = Raise("ConfigurationError")
            /\ UNCHANGED <<noise_model, selected>>
    /\ prevSelected' = None
    /\ callX' = <<>> /\ callSignal' = 0 /\ after' = <<>>
    /\ drawn' = 0 /\ sample' = None
    /\ UNCHANGED <<pc, args, score, space, true_min, true_max,
                   minPoints, maxPoints>>

\* ------------------------------------------------- noise_model.apply(context, signal)
\* a caller applying the installed model directly, as the tests do
noise_model_apply(X, s) ==
    /\ pc = "ready"
    /\ \E z \in NormalDraws :
       LET r == apply(noise_model, X, s, z, selected) IN
           /\ op' = "apply"
           /\ ret' = Ok(r.value)
           /\ drawn' = r.draws
           /\ sample' = r.sample
           /\ after' = <<r.context, r.signal>>
           /\ used' = noise_model
    /\ callX' = X /\ callSignal' = s
    /\ selected' = IF noise_model.type = "DataDependent"
                   THEN Some(SelectModel(noise_model, X, selected))
                   ELSE selected
    /\ prevSelected' = selected
    /\ callSpec' = OtherSpec /\ parses' = 0
    /\ UNCHANGED <<pc, args, fields, minPoints, maxPoints>>

Next ==
    \/ ModelSystem_init
    \/ \E X \in Points(space) : result_loss([x |-> X, fun |-> 0])
    \/ \E X \in Points(space) : get_score(X)
    \/ \E spec \in Specs : set_noise_model(spec)
    \/ \E X \in Points(space) : \E s \in Signals : noise_model_apply(X, s)

Spec == Init /\ [][Next]_vars

\* ================================================= claims

\* C1: get_score(X) returns exactly what the installed noise model's
\* apply(X, score(X)) returns for the same sample.
C1_GetScoreReturnsApply ==
    op = "get_score" =>
        \E z \in NormalDraws :
            ret = Ok(apply(noise_model, callX, Score(score, callX), z, None).value)

\* C2: once construction has finished, no call changes score, space,
\* true_min or true_max; set_noise_model replaces the noise model only.
C2_SwapKeepsScoreSpaceBounds ==
    [][pc = "ready" => UNCHANGED <<score, space, true_min, true_max>>]_vars

C2_Witness ==
    /\ op = "set_noise_model" /\ ret.kind = "none"
    /\ noise_model.type = "Multiplicative"
    /\ arg_true_min # None /\ true_min = arg_true_min[1]

\* C3: result_loss returns score(x*) - true_min for the noiseless score,
\* whatever noise model is installed, draws no noise sample and leaves the
\* ModelSystem as it was.
C3_ResultLossNoiseless ==
    [][op' = "result_loss" =>
          /\ ret' = Ok(Score(score, callX') - true_min)
          /\ drawn' = 0 /\ sample' = None /\ used' = NoModel
          /\ UNCHANGED <<fields, minPoints, maxPoints>>]_vars

C3_Witness ==
    /\ op = "result_loss" /\ ret.kind = "ok" /\ ret.val = Unit
    /\ noise_model.type = "Additive" /\ noise_model.dist.kind = "const"

\* C4: a bound the caller supplies (0 included) is stored as given and
\* nothing is sampled for it; an absent one is the min (max) of the noiseless
\* score over exactly 10 * n_dims Latin hypercube points.
IsLhs(pts, d) ==
    /\ Len(pts) = 10 * d
    /\ \A i \in 1..Len(pts) : Len(pts[i]) = d
    /\ \A j \in 1..d : {pts[i][j] : i \in 1..Len(pts)} = 0..(10 * d - 1)

C4_BoundsAtConstruction ==
    pc = "ready" =>
        /\ arg_true_min # None =>
               true_min = arg_true_min[1] /\ minPoints = <<>>
        /\ arg_true_min = None =>
               /\ IsLhs(minPoints, space)
               /\ \E i \in 1..Len(minPoints) : true_min = Score(score, minPoints[i])
               /\ \A i \in 1..Len(minPoints) : true_min <= Score(score, minPoints[i])
        /\ arg_true_max # None =>
               true_max = arg_true_max[1] /\ maxPoints = <<>>
        /\ arg_true_max = None =>
               /\ IsLhs(maxPoints, space)
               /\ \E i \in 1..Len(maxPoints) : true_max = Score(score, maxPoints[i])
               /\ \A i \in 1..Len(maxPoints) : true_max >= Score(score, maxPoints[i])

C4_Witness ==
    /\ pc = "ready" /\ score = "diag" /\ space = 2
    /\ arg_true_min = Some(0) /\ true_min = 0 /\ minPoints = <<>>
    /\ arg_true_max = None /\ Len(maxPoints) = 20 /\ true_max = Unit

\* C5: the parser hands an instance through unchanged, maps "constant",
\* "proportional" and "zero" to Additive, Multiplicative and Zero with default
\* parameters, and builds the variant a mapping names with its extra keys.
C5_ParsedModelInstalled ==
    (op \in {"__init__", "set_noise_model"} /\ ret.kind # "raise") =>
        /\ callSpec.shape = "instance" => noise_model = callSpec.model
        /\ callSpec = StrSpec("constant") =>
               noise_model = AdditiveNoise(0, NormalDist(Unit))
        /\ callSpec = StrSpec("proportional") =>
               noise_model = MultiplicativeNoise(0, NormalDist(Unit \div 100))
        /\ callSpec = StrSpec("zero") => noise_model = ZeroNoise(0)
        /\ (callSpec.shape = "dict" /\ callSpec.name = "constant") =>
               noise_model = AdditiveNoise(0, NormalDist(
                   IF callSpec.size = None THEN Unit ELSE callSpec.size[1]))
        /\ (callSpec.shape = "dict" /\ callSpec.name = "proportional") =>
               noise_model = MultiplicativeNoise(0, NormalDist(
                   IF callSpec.size = None THEN Unit \div 100
                   ELSE callSpec.size[1]))
        /\ callSpec.shape \in {"instance", "str", "dict"}

C5_Witness ==
    /\ op = "set_noise_model" /\ ret.kind = "none"
    /\ callSpec = DictSpec(TRUE, "constant", Some(5 * Unit))
    /\ noise_model.type = "Additive" /\ noise_model.dist.size = 5 * Unit

\* C6: a spec that is no instance, no recognized name and no mapping with a
\* recognized model_type fails with ConfigurationError, raised to the caller
\* of the constructor or of set_noise_model after a single parse.
Unrecognized(spec) ==
    \/ spec.shape = "other"
    \/ spec.shape = "str" /\ spec.name \notin {"constant", "proportional", "zero"}
    \/ spec.shape = "dict" /\ (~spec.has_type
                               \/ spec.name \notin {"constant", "proportional", "zero"})

C6_UnrecognizedSpecRaises ==
    (op \in {"__init__", "set_noise_model"} /\ Unrecognized(callSpec)) =>
        /\ ret = Raise("ConfigurationError")
        /\ parses = 1
        /\ op = "__init__" => (pc = "failed" /\ noise_model = NoModel)

C6_Witness ==
    /\ op = "set_noise_model" /\ ret.kind = "raise"
    /\ callSpec = DictSpec(FALSE, "", Some(5 * Unit))

\* C7: apply returns s for ZeroNoise, s + c for AdditiveNoise with a constant
\* sampler c and s * (1 + m) for MultiplicativeNoise with a constant sampler
\* m; the sampler is called once, context and signal are left as passed.
C7_ApplyOfPlainVariants ==
    (op = "apply" /\ noise_model.type # "DataDependent") =>
        /\ after = <<callX, callSignal>>
        /\ drawn <= 1
        /\ noise_model.type = "Zero" => ret = Ok(callSignal)
        /\ (noise_model.type = "Additive" /\ noise_model.dist.kind = "const") =>
               ret = Ok(callSignal + noise_model.dist.c) /\ drawn = 1
        /\ (noise_model.type = "Multiplicative" /\ noise_model.dist.kind = "const") =>
               /\ ret.kind = "ok"
               /\ ret.val * Unit = callSignal * (Unit + noise_model.dist.c)
               /\ drawn = 1

C7_Witness ==
    /\ op = "apply" /\ noise_model = MultiplicativeNoise(1, ConstDist(Unit))
    /\ callSignal = 2 * Unit /\ ret = Ok(4 * Unit) /\ drawn = 1

\* C8: every apply of a DataDependentNoise returns what the model its
\* selector gives for that call's own context returns, whatever the contexts
\* of earlier calls were.
C8_SelectorFreshEachCall ==
    (op = "apply" /\ noise_model.type = "DataDependent") =>
        /\ (noise_model.selector = "ZeroIfX0" /\ callX[1] = 0) =>
               ret = Ok(callSignal) /\ drawn = 0 /\ sample = None
        /\ (noise_model.selector = "ZeroIfX0" /\ callX[1] # 0) =>
               /\ drawn = 1
               /\ \E z \in NormalDraws :
                      sample = Some(z * Unit) /\ ret = Ok(callSignal + z * Unit)
        /\ noise_model.selector = "AddX" =>
               ret = Ok(callSignal + callX[1] * Unit) /\ drawn = 1

C8_Witness ==
    /\ op = "apply" /\ noise_model = DataDependentNoise(1, "ZeroIfX0")
    /\ callX[1] = 0 /\ ret = Ok(callSignal)
    /\ prevSelected # None /\ prevSelected[1].type = "Additive"

\* C9: a set_noise_model that fails leaves the ModelSystem as it was, a later
\* get_score calls the model still installed, and the noise_model field
\* always holds a NoiseModel instance.
IsNoiseModel(m) ==
    m.type \in {"Zero", "Additive", "Multiplicative", "DataDependent"}

C9_FailedSwapKeepsModel ==
    /\ [](pc = "ready" => IsNoiseModel(noise_model))
    /\ [](op = "get_score" => used = noise_model)
    /\ [][(op' = "set_noise_model" /\ ret'.kind = "raise") =>
              UNCHANGED <<pc, fields, minPoints, maxPoints, selected>>]_vars

C9_Witness ==
    /\ op = "set_noise_model" /\ ret = Raise("ConfigurationError")
    /\ noise_model = DataDependentNoise(1, "AddX")

\* C10 as stated: after construction true_min <= true_max, and
\* score(x) - true_min >= 0 for every point x sampled for true_min.
C10_MinNotAboveMax ==
    pc = "ready" =>
        /\ true_min <= true_max
        /\ \A i \in 1..Len(minPoints) : Score(score, minPoints[i]) - true_min >= 0

\* C10 amended: score(x) - true_min >= 0 for every point sampled for
\* true_min, true_max - score(x) >= 0 for every point sampled for true_max,
\* and true_min <= true_max when the two draws have a point in common.
C10_EstimatesBoundOwnSamples ==
    pc = "ready" =>
        /\ \A i \in 1..Len(minPoints) : Score(score, minPoints[i]) - true_min >= 0
        /\ \A i \in 1..Len(maxPoints) : true_max - Score(score, maxPoints[i]) >= 0
        /\ (\E i \in 1..Len(minPoints) : \E j \in 1..Len(maxPoints) :
                minPoints[i] = maxPoints[j]) => true_min <= true_max

C10_Witness ==
    /\ pc = "ready" /\ score = "sum" /\ space = 2
    /\ arg_true_min = None /\ arg_true_max = None
    /\ minPoints = maxPoints /\ true_min < true_max

====
